---- MODULE Spec2Model ----
(***************************************************************************)
(* Model of the Ozymandias repository: the `init` command line program     *)
(* (src/main.rs, src/cli/mod.rs, src/commands/init.rs) and the interface   *)
(* scaffolds under scaffolds/batch{1,2,3}/{a,b}.                           *)
(*                                                                         *)
(* The command line program is one sequential process (cli_pc).  The       *)
(* scaffolds are library code driven by one caller thread: every call is   *)
(* one action, its outcome is recorded in `ret`, and a call of a method    *)
(* whose body is unimplemented!() panics, which ends the caller thread.    *)
(***************************************************************************)
EXTENDS Integers, Sequences, FiniteSets

\* ----- bounds -----------------------------------------------------------
NumKeys == 2
NumVals == 2
NumDocs == 2
MaxFlag == 1

Keys == 1..NumKeys          \* distinct key strings
Vals == 1..NumVals          \* distinct value strings
Docs == 1..NumDocs          \* distinct documents handed to the stages
None == 0                   \* Option::None / key not in the HashMap

Paths == {"kb.json", "/tmp/kb"}
FileType == {"Markdown", "Text", "Pdf"}
SubArgs == {"init", "bogus"}

\* tracing levels, most severe first (tracing::Level)
LevelOf == [ERROR |-> 1, WARN |-> 2, INFO |-> 3, DEBUG |-> 4, TRACE |-> 5]
MaxLevel == LevelOf["INFO"]

VARIABLES
    data,          \* scaffolds/batch1/b Storage.data : key -> value or None
    storage_path,  \* scaffolds/batch1/b Storage.storage_path
    mem_data,      \* scaffolds/batch1/a InMemoryStorage.data
    panicked,      \* the caller thread of the scaffolds has panicked
    ret,           \* the last scaffold call and what it returned
    pre,           \* history: Storage.data / storage_path before that call
    lastWrite,     \* history: per key, the value of the last insert (None if never)
    trains_ok,     \* history: number of train calls that returned Ok
    argv,          \* command line of the program
    cli_pc,        \* position of main
    subscriber,    \* max level of the installed global subscriber, 0 if none
    command,       \* Cli.command after Cli::parse
    out,           \* events written by the program, in order
    init_result,   \* what InitCommand::execute returned
    cmd_result,    \* what Commands::execute returned
    exit_code      \* process exit code, -1 while running

storeVars == <<data, storage_path, mem_data, panicked, ret, pre, lastWrite, trains_ok>>
cliVars == <<argv, cli_pc, subscriber, command, out, init_result, cmd_result, exit_code>>
vars == <<data, storage_path, mem_data, panicked, ret, pre, lastWrite, trains_ok,
          argv, cli_pc, subscriber, command, out, init_result, cmd_result, exit_code>>

\* ----- scaffolds: results ------------------------------------------------
Ret(op, key, val, tag, payload, text) ==
    [op |-> op, key |-> key, val |-> val, tag |-> tag, payload |-> payload, text |-> text]

NoRet == Ret("none", 0, 0, "none", 0, "")

Snapshot == [data |-> data, storage_path |-> storage_path]

\* unimplemented!() : the call never returns, the thread unwinds
Unimplemented(op, key, val) ==
    /\ ~panicked
    /\ panicked' = TRUE
    /\ ret' = Ret(op, key, val, "Panic", 0, "not implemented")
    /\ pre' = Snapshot
    /\ UNCHANGED <<data, storage_path, mem_data, lastWrite, trains_ok>>

\* ----- scaffolds/batch1/b/storage.rs -------------------------------------
EmptyMap == [k \in Keys |-> None]

StorageNew(path) == [data |-> EmptyMap, storage_path |-> path]

\* insert that keeps an existing entry (entry().or_insert)
HashMapInsert_KeepOld(m, k, v) == IF m[k] = None THEN [m EXCEPT ![k] = v] ELSE m

HashMapInsert(m, k, v) == [m EXCEPT ![k] = v]

HashMapGet(m, k) == m[k]

KeysOf(m) == {k \in Keys : m[k] # None}

Save ==
    /\ ~panicked
    /\ ret' = Ret("save", 0, 0, "Ok", 0, "")
    /\ pre' = Snapshot
    /\ UNCHANGED <<data, storage_path, mem_data, panicked, lastWrite, trains_ok>>

Load ==
    /\ ~panicked
    /\ ret' = Ret("load", 0, 0, "Ok", 0, "")
    /\ pre' = Snapshot
    /\ UNCHANGED <<data, storage_path, mem_data, panicked, lastWrite, trains_ok>>

Insert(k, v) ==
    /\ ~panicked
    /\ data' = HashMapInsert(data, k, v)
    /\ ret' = Ret("insert", k, v, "Unit", 0, "")
    /\ pre' = Snapshot
    /\ lastWrite' = [lastWrite EXCEPT ![k] = v]
    /\ UNCHANGED <<storage_path, mem_data, panicked, trains_ok>>

\* lookup that takes the entry out of the map (remove instead of get)
Get_Remove(k) ==
    /\ ~panicked
    /\ LET r == HashMapGet(data, k)
       IN ret' = Ret("get", k, 0, IF r = None THEN "None" ELSE "Some", r, "")
    /\ data' = [data EXCEPT ![k] = None]
    /\ pre' = Snapshot
    /\ UNCHANGED <<storage_path, mem_data, panicked, lastWrite, trains_ok>>

Get(k) ==
    /\ ~panicked
    /\ LET r == HashMapGet(data, k)
       IN ret' = Ret("get", k, 0, IF r = None THEN "None" ELSE "Some", r, "")
    /\ pre' = Snapshot
    /\ UNCHANGED <<data, storage_path, mem_data, panicked, lastWrite, trains_ok>>

\* ----- scaffolds/batch1/a/storage.rs -------------------------------------
MemStore(v) == Unimplemented("store", 0, v)

MemRetrieve(k) == Unimplemented("retrieve", k, 0)

\* ----- scaffolds/batch1/b/parser.rs, scaffolds/batch1/a/parser.rs --------
ParseByType(ft) ==
    CASE ft = "Markdown" -> ""
      [] ft = "Text"     -> ""
      [] ft = "Pdf"      -> ""

ParserParse(ft) ==
    /\ ~panicked
    /\ ret' = Ret("parse:" \o ft, 0, 0, "Ok", 0, ParseByType(ft))
    /\ pre' = Snapshot
    /\ UNCHANGED <<data, storage_path, mem_data, panicked, lastWrite, trains_ok>>

JsonParse(d) == Unimplemented("parse:JSON", d, 0)

\* ----- scaffolds/batch2, scaffolds/batch3 --------------------------------
Transform(d) == Unimplemented("transform", d, 0)

Classify(d) == Unimplemented("classify", d, 0)

Relate(d) == Unimplemented("relate", d, 0)

Train(corpus) == Unimplemented("train", Cardinality(corpus), 0)

Predict(d) == Unimplemented("predict", d, 0)

ScaffoldNext ==
    \/ Save
    \/ Load
    \/ \E k \in Keys, v \in Vals : Insert(k, v)
    \/ \E k \in Keys : Get(k)
    \/ \E v \in Vals : MemStore(v)
    \/ \E k \in Keys : MemRetrieve(k)
    \/ \E ft \in FileType : ParserParse(ft)
    \/ \E d \in Docs : JsonParse(d)
    \/ \E d \in Docs : Transform(d)
    \/ \E d \in Docs : Classify(d)
    \/ \E d \in Docs : Relate(d)
    \/ \E c \in SUBSET Docs : Train(c)
    \/ \E d \in Docs : Predict(d)

\* ----- src/commands/init.rs, src/cli/mod.rs, src/main.rs -----------------
Log(text) == [kind |-> "log", text |-> text]

Printed(text) == [kind |-> "print", text |-> text]

\* info!(..): the event reaches the subscriber when INFO is within its max level
Info(o, text) ==
    IF subscriber # 0 /\ LevelOf["INFO"] <= subscriber THEN Append(o, Log(text)) ELSE o

\* the greeting is printed before the first log line and again after it
InitCommandExecute_PrintTwice(o) ==
    LET o1 == Append(o, Printed("Hello World"))
        o2 == Info(o1, "Starting init command")
        o3 == Append(o2, Printed("Hello World"))
        o4 == Info(o3, "Completed init command")
    IN [out |-> o4, result |-> "Ok"]

InitCommandExecute(o) ==
    LET o1 == Info(o, "Starting init command")
        o2 == Append(o1, Printed("Hello World"))
        o3 == Info(o2, "Completed init command")
    IN [out |-> o3, result |-> "Ok"]

CommandsExecute(cmd, o) ==
    CASE cmd = "Init" -> InitCommandExecute(o)

MainSetLogging ==
    /\ cli_pc = "start"
    /\ subscriber' = MaxLevel
    /\ cli_pc' = "logging"
    /\ UNCHANGED <<argv, command, out, init_result, cmd_result, exit_code>>

\* Cli::parse(): clap ends the process with a usage error on an unknown subcommand
MainParse ==
    /\ cli_pc = "logging"
    /\ IF argv.sub = "init"
         THEN /\ command' = "Init"
              /\ cli_pc' = "parsed"
              /\ UNCHANGED <<out, exit_code>>
         ELSE /\ out' = Append(out, [kind |-> "usage", text |-> argv.sub])
              /\ exit_code' = 2
              /\ cli_pc' = "exit"
              /\ UNCHANGED command
    /\ UNCHANGED <<argv, subscriber, init_result, cmd_result>>

MainExecute ==
    /\ cli_pc = "parsed"
    /\ LET r == CommandsExecute(command, out)
       IN /\ out' = r.out
          /\ init_result' = InitCommandExecute(out).result
          /\ cmd_result' = r.result
    /\ cli_pc' = "executed"
    /\ UNCHANGED <<argv, subscriber, command, exit_code>>

\* `?` on the result, then Ok(()): exit code 0, or 1 when main returns Err
MainExit ==
    /\ cli_pc = "executed"
    /\ exit_code' = IF cmd_result = "Ok" THEN 0 ELSE 1
    /\ cli_pc' = "exit"
    /\ UNCHANGED <<argv, subscriber, command, out, init_result, cmd_result>>

CliNext ==
    \/ MainSetLogging
    \/ MainParse
    \/ MainExecute
    \/ MainExit

\* ----- specification -----------------------------------------------------
Init ==
    /\ \E p \in Paths :
         /\ data = StorageNew(p).data
         /\ storage_path = StorageNew(p).storage_path
         /\ pre = StorageNew(p)
    /\ mem_data = EmptyMap
    /\ panicked = FALSE
    /\ ret = NoRet
    /\ lastWrite = EmptyMap
    /\ trains_ok = 0
    /\ argv \in [verbose : 0..MaxFlag, quiet : 0..MaxFlag, sub : SubArgs]
    /\ cli_pc = "start"
    /\ subscriber = 0
    /\ command = "unset"
    /\ out = <<>>
    /\ init_result = "unset"
    /\ cmd_result = "unset"
    /\ exit_code = -1

Next ==
    \/ ScaffoldNext /\ UNCHANGED cliVars
    \/ CliNext /\ UNCHANGED storeVars

Spec == Init /\ [][Next]_vars

\* main is a sequential program that is always scheduled
FairSpec == Spec /\ WF_vars(CliNext /\ UNCHANGED storeVars)

\* ----- properties --------------------------------------------------------
ParseOps == {"parse:" \o ft : ft \in FileType} \cup {"parse:JSON"}

\* the key of the last lookup was never stored in the store that was asked
NeverStored ==
    IF ret.op = "get" THEN lastWrite[ret.key] = None ELSE mem_data[ret.key] = None

C3_NotFound ==
    (ret.op \in {"get", "retrieve"} /\ NeverStored)
        => (ret.tag = "NotFound" /\ data = pre.data /\ mem_data = EmptyMap)

\* C5: a predict with no successful train before it returns
\* Err(MLError::NotTrained); a predict after a successful train returns Ok.
C5_PredictorOrdering ==
    ret.op = "predict" =>
        ret.tag = (IF trains_ok = 0 THEN "NotTrained" ELSE "Ok")

\* C8: for every format tag, parse never returns Ok with empty content.
C8_NoEmptyParse ==
    (ret.op \in ParseOps /\ ret.tag = "Ok") => ret.text # ""

InitEvents ==
    << Log("Starting init command"),
       Printed("Hello World"),
       Log("Completed init command") >>

C9_Safety ==
    /\ (command = "Init" /\ cli_pc = "parsed") => out = <<>>
    /\ (command = "Init" /\ cli_pc \in {"executed", "exit"}) =>
          /\ out = InitEvents
          /\ init_result = "Ok"
          /\ cmd_result = init_result
    /\ (command = "Init" /\ cli_pc = "exit") => exit_code = 0

\* C9: a run of the init subcommand always ends with exit code 0; it emits
\* the "Starting init command" log, then "Hello World" once, then the
\* "Completed init command" log, and Commands::execute returns what
\* InitCommand::execute returned.
C9_InitRun ==
    /\ []C9_Safety
    /\ (command = "Init") ~> (cli_pc = "exit" /\ exit_code = 0)

\* the init run has finished
C9_Witness ==
    /\ command = "Init"
    /\ cli_pc = "exit"
    /\ Len(out) = 3
    /\ cmd_result = "Ok"

\* C10: insert(k, v) changes the map at key k only and no call removes a key;
\* get, save and load leave the map and storage_path as they were; save and
\* load return Ok.
C10_Frame ==
    /\ \A j \in Keys : pre.data[j] # None => data[j] # None
    /\ storage_path = pre.storage_path
    /\ ret.op = "insert" => \A j \in Keys : j # ret.key => data[j] = pre.data[j]
    /\ ret.op \in {"get", "save", "load"} => data = pre.data
    /\ ret.op \in {"save", "load"} => ret.tag = "Ok"

\* a get, save or load on a full map, after inserts
C10_Witness ==
    /\ ret.op \in {"get", "save", "load"}
    /\ KeysOf(data) = Keys
    /\ \E j, l \in Keys : data[j] # data[l]

====
